---- MODULE Spec2Model ----
(***************************************************************************)
(* A model of the ajen-design single page application: the App shell       *)
(* (content load, category filter, project selection and navigation,       *)
(* scroll lock), the ProjectDetail slideshow with its touch handlers, and  *)
(* the AdminControl draft editor.                                           *)
(*                                                                         *)
(* React state is modelled by one variable per useState/useRef cell.  An    *)
(* event handler together with the render and the effects that follow it   *)
(* is one action.  Indices are 0-based as in the source; a sequence s is    *)
(* read at JavaScript index i as s[i + 1].                                  *)
(***************************************************************************)
EXTENDS Integers, Sequences, FiniteSets, TLC

(***************************************************************************)
(* Bounds of the model.                                                    *)
(***************************************************************************)
\* Number of draft edits (editor operations) explored in one behaviour.
MaxEdits == 2

(***************************************************************************)
(* Values.                                                                 *)
(***************************************************************************)
\* JavaScript null for the string-valued cells (selectedProjectId, error).
NULL == "<null>"
\* A property that is not present on an object, and one present with the
\* value undefined.  Both read as undefined; JSON.stringify writes neither.
ABSENT == "<absent>"
UNDEFINED == "<undefined>"

\* ProjectImage = string | { url: string; alt?: string }.  A bare string is
\* the record with str = TRUE (its alt is ABSENT).
StrImage(u) == [str |-> TRUE, url |-> u, alt |-> ABSENT]
ObjImage(u, a) == [str |-> FALSE, url |-> u, alt |-> a]

Project(i, t, c, th, imgs) ==
    [id |-> i, title |-> t, category |-> c, thumbnail |-> th, images |-> imgs]

Exhibition(i, t, d) == [id |-> i, title |-> t, date |-> d]

SiteContent(logo, ps, es, mail) ==
    [logoUrl |-> logo, projects |-> ps, exhibitions |-> es, contactEmail |-> mail]

\* The document of the JSON text "{}": well-formed, without any property.
ShapelessDoc == [logoUrl |-> ABSENT, contactEmail |-> ABSENT]

\* content.projects and content.exhibitions are there to be filtered,
\* mapped and spread.
HasShape(doc) == {"projects", "exhibitions"} \subseteq DOMAIN doc

\* The content.json document served with the application.
ContentJson ==
    SiteContent(ABSENT,
                << Project("p1", "One", "print", "thumb1", << StrImage("u"), ObjImage("v", ABSENT) >>),
                   Project("p2", "Two", "digital", "thumb2", << >>) >>,
                << Exhibition("e1", "Ex1", "2024-01-01"),
                   Exhibition("e2", "Ex2", "2025-06-01") >>,
                "a@x")

\* Outcomes of the startup fetch: the parsed document, or the message of the
\* error thrown (network error, non-success status, body parse error).
\* The HTML of a description: its text, the block it is formatted as and
\* whether it is bold.
Html(t, b, bold) == [text |-> t, block |-> b, bold |-> bold]
NoHtml == Html("", "p", FALSE)

FetchErrors == {"Failed to fetch", "Failed to load content: Not Found", "Unexpected token"}

VARIABLES
    \* App (src/types.ts)
    content,            \* << >> for null, << doc >> for a SiteContent
    isAdmin,
    adminParam,         \* whether the page URL carries the admin flag
    activeCategory,
    selectedProjectId,  \* NULL or a project id
    isLoading,
    error,              \* NULL or a message
    bodyOverflow,       \* document.body.style.overflow
    appMounted,         \* FALSE once a render has thrown and React removed the tree
    \* ProjectDetail (src/components/ProjectDetail.tsx)
    currentSlide,
    touchStartX,        \* << >> for null, << x >> otherwise
    touchStartY,
    isSwiping,
    gesture,            \* history of the current touch sequence
    \* AdminControl (src/components/AdminControl.tsx)
    isOpen,
    draftContent,       \* << >> while AdminControl is not mounted
    aliased,            \* parts of the draft that are the same object as in content
    reads,              \* file texts a FileReader of this AdminControl is still reading
    downloaded,         \* << >> or << text >>: the last file offered for download
    alerts,             \* number of alert() dialogs shown
    declined,           \* number of confirm() dialogs answered with Cancel
    now,                \* last reading of Date.now()
    edits,              \* number of editor operations made so far
    \* RichTextEditor of one project row (src/components/AdminControl.tsx:472)
    rteValue,           \* the value prop: the description the row is bound to
    editorHtml,         \* editorRef.current.innerHTML
    isInternalUpdate

vars == << content, isAdmin, adminParam, activeCategory, selectedProjectId, isLoading,
           error, bodyOverflow, appMounted, currentSlide, touchStartX, touchStartY,
           isSwiping, gesture, isOpen, draftContent, aliased, reads, downloaded,
           alerts, declined, now, edits, rteValue, editorHtml, isInternalUpdate >>

rteVars == << rteValue, editorHtml, isInternalUpdate >>
appVars == << content, isAdmin, adminParam, activeCategory, selectedProjectId, isLoading,
              error, bodyOverflow, appMounted >>
detailVars == << currentSlide, touchStartX, touchStartY, isSwiping, gesture >>
touchVars == << touchStartX, touchStartY, isSwiping, gesture >>
adminVars == << isOpen, draftContent, aliased, reads, downloaded, alerts, declined, now, edits >>

(***************************************************************************)
(* App: derived values (useMemo) of src/types.ts.                          *)
(***************************************************************************)
\* Array.prototype.findIndex(p => p.id === id): 0-based, -1 when absent.
FindIndex(ps, id) ==
    IF \E i \in 1..Len(ps) : ps[i].id = id
    THEN (CHOOSE i \in 1..Len(ps) : ps[i].id = id /\ \A j \in 1..(i - 1) : ps[j].id # id) - 1
    ELSE -1

\* A filter that falls back to every project when none matches.
FilterProjectsOrAll(c, cat) ==
    IF c = << >> THEN << >>
    ELSE IF cat = "all" THEN c[1].projects
    ELSE IF \E i \in 1..Len(c[1].projects) : c[1].projects[i].category = cat
    THEN SelectSeq(c[1].projects, LAMBDA p : p.category = cat)
    ELSE c[1].projects

\* filteredProjects for content c and category cat.
FilterProjects(c, cat) ==
    IF c = << >> THEN << >>
    ELSE IF cat = "all" THEN c[1].projects
    ELSE SelectSeq(c[1].projects, LAMBDA p : p.category = cat)

filteredProjects == FilterProjects(content, activeCategory)

\* The first-occurrence order of Array.from(new Set(xs.map(p => p.category))).
RECURSIVE Distinct(_)
Distinct(s) ==
    IF s = << >> THEN << >>
    ELSE LET rest == Distinct(SubSeq(s, 1, Len(s) - 1))
             x == s[Len(s)]
         IN IF \E i \in 1..Len(rest) : rest[i] = x THEN rest ELSE Append(rest, x)

\* A category list computed from the projects the active filter lets through.
CategoriesOfFiltered(c) ==
    LET shown == FilterProjects(c, activeCategory)
    IN << "all" >> \o Distinct([i \in 1..Len(shown) |-> shown[i].category])

Categories(c) ==
    IF c = << >> THEN << "all" >>
    ELSE << "all" >> \o Distinct([i \in 1..Len(c[1].projects) |-> c[1].projects[i].category])

categories == Categories(content)

selectedProjectIndex == FindIndex(filteredProjects, selectedProjectId)

\* selectedProject = filteredProjects[selectedProjectIndex] is undefined at -1.
HasSelectedProject == selectedProjectIndex # -1
selectedProject == filteredProjects[selectedProjectIndex + 1]

\* What the Header shows between its prev and next buttons in modal mode:
\* << k, M >> for the text "k / M", << >> for the empty text.
HeaderCounter(index, total) ==
    IF total # 0 THEN << index + 1, total >> ELSE << >>

isModalOpen == selectedProjectId # NULL

\* new Date(d).getTime(), counted in days: a number for a date string, NaN
\* for the empty string a cleared date input yields.
ValidDate(d) == d # ""

GetTime(d) ==
    CASE d = "2023-03-01" -> 19417
      [] d = "2024-01-01" -> 19723
      [] d = "2025-06-01" -> 20240
      [] d = "2026-01-01" -> 20454

\* (a, b) => new Date(b.date).getTime() - new Date(a.date).getTime(); sort
\* reads a NaN result as +0.
CompareFn(a, b) ==
    IF ValidDate(a.date) /\ ValidDate(b.date) THEN GetTime(b.date) - GetTime(a.date) ELSE 0

\* Array.prototype.sort is stable; when the comparator is not a consistent
\* order its result depends on the algorithm.  Two stable algorithms stand
\* for the engines: insertion from the right, and top-down merge.
RECURSIVE InsertInto(_, _)
InsertInto(s, x) ==
    IF s = << >> THEN << x >>
    ELSE IF CompareFn(s[Len(s)], x) > 0
    THEN Append(InsertInto(SubSeq(s, 1, Len(s) - 1), x), s[Len(s)])
    ELSE Append(s, x)

RECURSIVE InsertionSorted(_)
InsertionSorted(es) ==
    IF es = << >> THEN << >>
    ELSE InsertInto(InsertionSorted(SubSeq(es, 1, Len(es) - 1)), es[Len(es)])

RECURSIVE Merged(_, _)
Merged(l, r) ==
    IF l = << >> THEN r
    ELSE IF r = << >> THEN l
    ELSE IF CompareFn(l[1], r[1]) <= 0
    THEN << l[1] >> \o Merged(Tail(l), r)
    ELSE << r[1] >> \o Merged(l, Tail(r))

RECURSIVE MergeSorted(_)
MergeSorted(es) ==
    IF Len(es) <= 1 THEN es
    ELSE LET mid == Len(es) \div 2
         IN Merged(MergeSorted(SubSeq(es, 1, mid)), MergeSorted(SubSeq(es, mid + 1, Len(es))))

SortOutcomes(es) == {InsertionSorted(es), MergeSorted(es)}

\* The lists sortedExhibitions may be: [...content.exhibitions].sort(...)
sortedExhibitions ==
    IF content = << >> THEN {<< >>} ELSE SortOutcomes(content[1].exhibitions)

(***************************************************************************)
(* ProjectDetail: slides and index arithmetic.                             *)
(***************************************************************************)
\* slides = (images.length > 0 ? images : [thumbnail]).map(toSlide)
Slides(p) ==
    IF Len(p.images) > 0 THEN p.images ELSE << StrImage(p.thumbnail) >>

\* A wrap at the wrong length.
NextIndexWrapsLate(prev, n) == (prev + 1) % (n + 1)

NextIndex(prev, n) == (prev + 1) % n
PrevIndex(prev, n) == (prev - 1 + n) % n

(***************************************************************************)
(* The render that follows a state update of App.  ProjectDetail is        *)
(* rendered without a key: it keeps its state as long as some project is   *)
(* displayed, and is mounted afresh (slide 0, no touch) otherwise.  A      *)
(* render that reads slides[currentSlide].type past the end throws; with   *)
(* no error boundary React then removes the whole tree, which runs the     *)
(* cleanup of the scroll-lock effect.                                      *)
(***************************************************************************)
NoGesture ==
    [phase |-> "none", sawSwipe |-> FALSE, dx |-> 0, dy |-> 0, navs |-> << >>, from |-> 0]

\* The state cells of App after the update, the slide cell of ProjectDetail,
\* and the effects of the render.
RenderShell(c, cat, sel, slide) ==
    LET shaped == c = << >> \/ HasShape(c[1])
        fp == IF shaped THEN FilterProjects(c, cat) ELSE << >>
        idx == FindIndex(fp, sel)
        kept == HasSelectedProject /\ idx # -1
        s == IF kept THEN slide ELSE 0
        \* content.projects.filter of a content without projects, or
        \* slides[currentSlide].type past the last slide
        throws == ~shaped \/ (idx # -1 /\ s >= Len(Slides(fp[idx + 1])))
    IN /\ content' = c
       /\ activeCategory' = cat
       /\ selectedProjectId' = sel
       /\ currentSlide' = s
       /\ appMounted' = ~throws
       /\ bodyOverflow' = IF throws THEN "" ELSE IF sel # NULL THEN "hidden" ELSE ""

\* A render caused by anything but a touch handler: the refs of a
\* ProjectDetail that stays mounted are kept.
Render(c, cat, sel, slide) ==
    /\ RenderShell(c, cat, sel, slide)
    /\ IF /\ HasSelectedProject
          /\ c = << >> \/ HasShape(c[1])
          /\ FindIndex(FilterProjects(c, cat), sel) # -1
       THEN UNCHANGED touchVars
       ELSE /\ touchStartX' = << >>
            /\ touchStartY' = << >>
            /\ isSwiping' = FALSE
            /\ gesture' = NoGesture

\* The main page is rendered: loading is over, no error, content present.
Ready == appMounted /\ ~isLoading /\ error = NULL /\ content # << >>

(***************************************************************************)
(* App: actions.                                                           *)
(***************************************************************************)
Init ==
    /\ content = << >>
    /\ isAdmin = FALSE
    /\ adminParam \in BOOLEAN
    /\ activeCategory = "all"
    /\ selectedProjectId = NULL
    /\ isLoading = TRUE
    /\ error = NULL
    /\ bodyOverflow = ""
    /\ appMounted = TRUE
    /\ currentSlide = 0
    /\ touchStartX = << >>
    /\ touchStartY = << >>
    /\ isSwiping = FALSE
    /\ gesture = NoGesture
    /\ isOpen = FALSE
    /\ draftContent = << >>
    /\ aliased = {}
    /\ reads = {}
    /\ downloaded = << >>
    /\ alerts = 0
    /\ declined = 0
    /\ rteValue = NoHtml
    /\ editorHtml = NoHtml
    /\ isInternalUpdate = FALSE
    /\ now = 1
    /\ edits = 0

AllParts == {"root", "projects", "exhibitions", "items"}

\* loadContent, the fetch succeeded with a parsed body.
LoadContentOk ==
    /\ isLoading
    /\ content' = << ContentJson >>
    /\ isAdmin' = adminParam
    /\ isLoading' = FALSE
    \* AdminControl mounts with useState(content): the draft is the content object
    /\ draftContent' = IF adminParam THEN << ContentJson >> ELSE << >>
    /\ aliased' = IF adminParam THEN AllParts ELSE {}
    /\ UNCHANGED << adminParam, rteVars, activeCategory, selectedProjectId, error, bodyOverflow,
                    appMounted, detailVars, isOpen, reads, downloaded, alerts, declined, now, edits >>

\* A catch branch after which the admin flag of the URL is still honoured.
LoadContentFailFlagHonoured ==
    /\ isLoading
    /\ \E msg \in FetchErrors : error' = msg
    /\ isLoading' = FALSE
    /\ isAdmin' = adminParam
    /\ UNCHANGED << content, adminParam, rteVars, activeCategory, selectedProjectId,
                    bodyOverflow, appMounted, detailVars, adminVars >>

\* loadContent, the catch branch.
LoadContentFail ==
    /\ isLoading
    /\ \E msg \in FetchErrors : error' = msg
    /\ isLoading' = FALSE
    /\ UNCHANGED << content, isAdmin, adminParam, rteVars, activeCategory, selectedProjectId,
                    bodyOverflow, appMounted, detailVars, adminVars >>

\* A filter button: onClick={() => setActiveCategory(cat)}
SetActiveCategory ==
    /\ Ready
    /\ \E i \in 1..Len(categories) :
          Render(content, categories[i], selectedProjectId, currentSlide)
    /\ UNCHANGED << isAdmin, adminParam, rteVars, isLoading, error, adminVars >>

\* A grid tile: onClick={() => setSelectedProjectId(project.id)}
SelectProject ==
    /\ Ready
    /\ \E i \in 1..Len(filteredProjects) :
          Render(content, activeCategory, filteredProjects[i].id, currentSlide)
    /\ UNCHANGED << isAdmin, adminParam, rteVars, isLoading, error, adminVars >>

\* The id handleNavigate selects; the selection is unchanged at index -1.
NavigateTarget(fp, index, sel, direction) ==
    IF index = -1 THEN sel
    ELSE LET step == IF direction = "next" THEN index + 1 ELSE index - 1
             wrapHigh == IF step >= Len(fp) THEN 0 ELSE step
             newIndex == IF wrapHigh < 0 THEN Len(fp) - 1 ELSE wrapHigh
         IN fp[newIndex + 1].id

\* Header prev / next in modal mode.
handleNavigate(direction) ==
    /\ Ready
    /\ isModalOpen
    /\ Render(content, activeCategory,
              NavigateTarget(filteredProjects, selectedProjectIndex, selectedProjectId, direction),
              currentSlide)
    /\ UNCHANGED << isAdmin, adminParam, rteVars, isLoading, error, adminVars >>

\* Header close in modal mode.
handleCloseModal ==
    /\ Ready
    /\ isModalOpen
    /\ Render(content, activeCategory, NULL, currentSlide)
    /\ UNCHANGED << isAdmin, adminParam, rteVars, isLoading, error, adminVars >>

\* The footer button: onClick={() => setIsAdmin(prev => !prev)}.  AdminControl
\* is mounted (closed, draft = content) or unmounted with its state.
ToggleAdmin ==
    /\ Ready
    /\ isAdmin' = ~isAdmin
    /\ isOpen' = FALSE
    /\ draftContent' = IF isAdmin THEN << >> ELSE content
    /\ aliased' = IF isAdmin THEN {} ELSE AllParts
    \* a FileReader of the unmounted instance can no longer reach a mounted one
    /\ reads' = {}
    /\ UNCHANGED << content, adminParam, rteVars, activeCategory, selectedProjectId, isLoading,
                    error, bodyOverflow, appMounted, detailVars, downloaded, alerts, declined,
                    now, edits >>

(***************************************************************************)
(* ProjectDetail: actions.                                                 *)
(***************************************************************************)
DetailShown == Ready /\ HasSelectedProject
NumSlides == Len(Slides(selectedProject))

\* The overlay buttons, rendered when slides.length > 1.
nextSlide ==
    /\ DetailShown
    /\ NumSlides > 1
    /\ Render(content, activeCategory, selectedProjectId, NextIndex(currentSlide, NumSlides))
    /\ UNCHANGED << isAdmin, adminParam, rteVars, isLoading, error, adminVars >>

prevSlide ==
    /\ DetailShown
    /\ NumSlides > 1
    /\ Render(content, activeCategory, selectedProjectId, PrevIndex(currentSlide, NumSlides))
    /\ UNCHANGED << isAdmin, adminParam, rteVars, isLoading, error, adminVars >>

\* Math.abs
Abs(x) == IF x < 0 THEN 0 - x ELSE x

\* The pixel thresholds of handleTouchMove and handleTouchEnd.
SwipeDeadZone == 10
SwipeCommit == 40

\* Touch positions (clientX, clientY) explored: the start points and the
\* points at the displacements around the two thresholds.
StartPoints == {41, 50}
Displacements == {-41, -40, -11, -10, 0, 10, 11, 40, 41}
TouchPoints == {s + d : s \in StartPoints, d \in Displacements}

handleTouchStart ==
    /\ DetailShown
    /\ \E x \in StartPoints, y \in StartPoints :
          /\ touchStartX' = << x >>
          /\ touchStartY' = << y >>
    /\ isSwiping' = FALSE
    /\ gesture' = [phase |-> "started", sawSwipe |-> FALSE, dx |-> 0, dy |-> 0,
                   navs |-> << >>, from |-> currentSlide]
    /\ UNCHANGED << appVars, rteVars, currentSlide, adminVars >>

\* Whether a move at displacement (deltaX, deltaY) enters swipe mode.
EntersSwipe(deltaX, deltaY) ==
    Abs(deltaX) > Abs(deltaY) /\ Abs(deltaX) > SwipeDeadZone

\* touchmove is delivered for a touch in progress.
handleTouchMove ==
    /\ DetailShown
    /\ gesture.phase = "started"
    /\ \E x \in TouchPoints, y \in TouchPoints :
          IF touchStartX = << >> \/ touchStartY = << >>
          THEN UNCHANGED << isSwiping, gesture >>
          ELSE LET deltaX == x - touchStartX[1]
                   deltaY == y - touchStartY[1]
               IN /\ isSwiping' = (isSwiping \/ EntersSwipe(deltaX, deltaY))
                  /\ gesture' = [gesture EXCEPT
                                   !.sawSwipe = @ \/ (Abs(deltaX) > Abs(deltaY) /\ Abs(deltaX) > 10)]
    /\ UNCHANGED << appVars, rteVars, currentSlide, touchStartX, touchStartY, adminVars >>

\* The two directions exchanged.
ReleaseNavigationReversed(swiping, deltaX, deltaY) ==
    IF ~swiping THEN "none"
    ELSE IF Abs(deltaX) > Abs(deltaY) /\ Abs(deltaX) > SwipeCommit
    THEN (IF deltaX < 0 THEN "prev" ELSE "next")
    ELSE "none"

\* The comparison with the vertical displacement left out at release.
ReleaseNavigationAnyAngle(swiping, deltaX, deltaY) ==
    IF ~swiping THEN "none"
    ELSE IF Abs(deltaX) > SwipeCommit
    THEN (IF deltaX < 0 THEN "next" ELSE "prev")
    ELSE "none"

\* What handleTouchEnd calls at release displacement (deltaX, deltaY):
\* "next" for nextSlide(), "prev" for prevSlide(), "none" for neither.
ReleaseNavigation(swiping, deltaX, deltaY) ==
    IF ~swiping THEN "none"
    ELSE IF Abs(deltaX) > Abs(deltaY) /\ Abs(deltaX) > SwipeCommit
    THEN (IF deltaX < 0 THEN "next" ELSE "prev")
    ELSE "none"

\* touchend is delivered for a touch in progress.
handleTouchEnd ==
    /\ DetailShown
    /\ gesture.phase = "started"
    /\ \E x \in TouchPoints, y \in TouchPoints :
          LET deltaX == x - touchStartX[1]
              deltaY == y - touchStartY[1]
              nav == ReleaseNavigation(isSwiping, deltaX, deltaY)
              ended == [gesture EXCEPT !.phase = "ended", !.dx = deltaX, !.dy = deltaY,
                                       !.navs = IF nav = "none" THEN @ ELSE Append(@, nav)]
          IN IF touchStartX = << >> \/ touchStartY = << >> \/ ~isSwiping
             THEN /\ gesture' = ended
                  /\ UNCHANGED << appVars, rteVars, currentSlide, touchStartX, touchStartY, isSwiping >>
             ELSE /\ RenderShell(content, activeCategory, selectedProjectId,
                                 IF nav = "next" THEN NextIndex(currentSlide, NumSlides)
                                 ELSE IF nav = "prev" THEN PrevIndex(currentSlide, NumSlides)
                                 ELSE currentSlide)
                  /\ touchStartX' = << >>
                  /\ touchStartY' = << >>
                  /\ isSwiping' = FALSE
                  /\ gesture' = ended
                  /\ UNCHANGED << isAdmin, adminParam, rteVars, isLoading, error >>
    /\ UNCHANGED adminVars

(***************************************************************************)
(* JSON.  A text is modelled by what JSON.parse makes of it: the tree it   *)
(* denotes when it is well-formed JSON, nothing otherwise.  JSON.stringify *)
(* writes neither an absent property nor one whose value is undefined.     *)
(***************************************************************************)
NoTree == SiteContent(ABSENT, << >>, << >>, "")
JsonText(tree) == [kind |-> "json", tree |-> tree]
GarbageText == [kind |-> "garbage", tree |-> NoTree]
EmptyText == [kind |-> "empty", tree |-> NoTree]

\* A serialiser that writes an undefined property as null.
WrittenPropertyAsNull(v) == IF v = UNDEFINED THEN NULL ELSE v

WrittenProperty(v) == IF v = UNDEFINED THEN ABSENT ELSE v

WrittenImage(img) ==
    IF img.str THEN img ELSE ObjImage(img.url, WrittenProperty(img.alt))

WrittenProject(p) ==
    [p EXCEPT !.images = [i \in 1..Len(p.images) |-> WrittenImage(p.images[i])]]

JSONStringify(doc) ==
    IF HasShape(doc)
    THEN JsonText([doc EXCEPT
                     !.logoUrl = WrittenProperty(doc.logoUrl),
                     !.projects = [i \in 1..Len(doc.projects) |-> WrittenProject(doc.projects[i])]])
    ELSE JsonText([doc EXCEPT !.logoUrl = WrittenProperty(doc.logoUrl)])

JSONParses(text) == text.kind = "json"
JSONParse(text) == text.tree

(***************************************************************************)
(* AdminControl: operations on the draft.                                  *)
(***************************************************************************)
AdminMounted == Ready /\ isAdmin
EditorOpen == AdminMounted /\ isOpen
draft == draftContent[1]

\* Inputs the operator types or picks in the editor.
TitleInputs == {"Edited"}
CategoryInputs == {"digital", "all"}
UrlInputs == {"w"}
AltInputs == {"alt"}
DateInputs == {"2025-06-01", ""}
EmailInputs == {"b@x"}
\* Readings of the wall clock (Date.now()) while the page is open.
ClockReadings == {1, 2}
\* Files the operator may pick for import.
ImportDoc ==
    SiteContent("./logo.png",
                << Project("p9", "Nine", "web", "thumb9", << StrImage("x"), StrImage("y") >>) >>,
                << >>,
                "c@x")
ImportFiles == {JsonText(ImportDoc), GarbageText, EmptyText}

\* An edit that also hands the new draft to onUpdate.
SetDraftAndPublish(d, fresh) ==
    /\ draftContent' = << d >>
    /\ content' = << d >>
    /\ aliased' = AllParts
    /\ edits' = edits + 1
    /\ UNCHANGED << isAdmin, adminParam, rteVars, activeCategory, selectedProjectId, isLoading, error,
                    bodyOverflow, appMounted, detailVars, isOpen, reads, downloaded, alerts, declined, now >>

\* setDraftContent(d) in an event handler of the open editor; `fresh` are the
\* parts of d the handler built anew.
SetDraft(d, fresh) ==
    /\ draftContent' = << d >>
    /\ aliased' = aliased \ fresh
    /\ edits' = edits + 1
    /\ UNCHANGED << appVars, rteVars, detailVars, isOpen, reads, downloaded, alerts, declined, now >>

CanEdit == EditorOpen /\ edits < MaxEdits

\* A shallow copy, { ...content }, in place of the JSON round trip.
handleOpenShallow ==
    /\ AdminMounted
    /\ ~isOpen
    /\ draftContent' = content
    /\ aliased' = AllParts \ {"root"}
    /\ isOpen' = TRUE
    /\ UNCHANGED << appVars, rteVars, detailVars, reads, downloaded, alerts, declined, now, edits >>

\* An open that shows the draft as it finds it.
handleOpenKeepingDraft ==
    /\ AdminMounted
    /\ ~isOpen
    /\ isOpen' = TRUE
    /\ UNCHANGED << appVars, rteVars, detailVars, draftContent, aliased, reads, downloaded, alerts,
                    declined, now, edits >>

handleOpen ==
    /\ AdminMounted
    /\ ~isOpen
    /\ draftContent' = << JSONParse(JSONStringify(content[1])) >>
    /\ aliased' = {}
    /\ isOpen' = TRUE
    /\ UNCHANGED << appVars, rteVars, detailVars, reads, downloaded, alerts, declined, now, edits >>

\* onUpdate is App's setContent: the draft object becomes the content.
handleClose ==
    /\ EditorOpen
    /\ Render(draftContent, activeCategory, selectedProjectId, currentSlide)
    /\ aliased' = AllParts
    /\ isOpen' = FALSE
    /\ UNCHANGED << isAdmin, adminParam, rteVars, isLoading, error, draftContent, reads,
                    downloaded, alerts, declined, now, edits >>

\* The download replaces the file content.json of the download folder.
handleExport ==
    /\ EditorOpen
    /\ downloaded' = << JSONStringify(draft) >>
    /\ UNCHANGED << appVars, rteVars, detailVars, isOpen, draftContent, aliased, reads, alerts, declined, now, edits >>

\* The files of the operator's disk: the prepared ones and the last download.
PickableFiles == ImportFiles \cup {downloaded[i] : i \in 1..Len(downloaded)}

\* handleImport starts reading the picked file; onload runs later.
handleImport ==
    /\ CanEdit
    /\ \E file \in PickableFiles : reads' = reads \cup {file}
    /\ edits' = edits + 1
    /\ UNCHANGED << appVars, rteVars, detailVars, isOpen, draftContent, aliased, downloaded,
                    alerts, declined, now >>

\* An onload that applies what it read whether or not it parsed.
fileReaderOnloadUnguarded ==
    /\ AdminMounted
    /\ \E file \in reads :
          /\ reads' = reads \ {file}
          /\ draftContent' = << JSONParse(file) >>
          /\ aliased' = {}
          /\ alerts' = IF JSONParses(file) THEN alerts ELSE alerts + 1
    /\ UNCHANGED << appVars, rteVars, detailVars, isOpen, downloaded, declined, now, edits >>

\* fileReader.onload: an empty result is falsy and skipped, a well-formed
\* text replaces the draft, any other text raises the alert.
fileReaderOnload ==
    /\ AdminMounted
    /\ \E file \in reads :
          /\ reads' = reads \ {file}
          /\ IF file.kind = "empty"
             THEN UNCHANGED << draftContent, aliased, alerts >>
             ELSE IF JSONParses(file)
             THEN /\ draftContent' = << JSONParse(file) >>
                  /\ aliased' = {}
                  /\ UNCHANGED alerts
             ELSE /\ alerts' = alerts + 1
                  /\ UNCHANGED << draftContent, aliased >>
    /\ UNCHANGED << appVars, rteVars, detailVars, isOpen, downloaded, declined, now, edits >>

\* draftContent.projects.map(p => p.id === id ? { ...p, [field]: value } : p)
UpdatedProjects(ps, id, field, value) ==
    [i \in 1..Len(ps) |-> IF ps[i].id = id THEN [ps[i] EXCEPT ![field] = value] ELSE ps[i]]

updateProject(id, field, value) ==
    SetDraft([draft EXCEPT !.projects = UpdatedProjects(draft.projects, id, field, value)],
             {"root", "projects", "items"})

\* The title and category inputs of a project row.
EditProjectField ==
    /\ CanEdit
    /\ \E i \in 1..Len(draft.projects) :
          \/ \E v \in TitleInputs : updateProject(draft.projects[i].id, "title", v)
          \/ \E v \in CategoryInputs : updateProject(draft.projects[i].id, "category", v)

\* The gallery inputs and buttons of a project row (lines 338-394).
ImageUrlEdited(images, idx, v) ==
    [images EXCEPT ![idx + 1] =
        ObjImage(v, IF images[idx + 1].str THEN ""
                    ELSE IF images[idx + 1].alt = ABSENT THEN UNDEFINED
                    ELSE images[idx + 1].alt)]

ImageAltEdited(images, idx, v) ==
    [images EXCEPT ![idx + 1] = ObjImage(images[idx + 1].url, v)]

ImageRemoved(images, idx) ==
    [i \in 1..(Len(images) - 1) |-> IF i < idx + 1 THEN images[i] ELSE images[i + 1]]

ImageAdded(images) == Append(images, ObjImage("", ""))

EditGallery ==
    /\ CanEdit
    /\ \E i \in 1..Len(draft.projects) :
          LET p == draft.projects[i] IN
          \/ updateProject(p.id, "images", ImageAdded(p.images))
          \/ \E idx \in 0..(Len(p.images) - 1) :
                \/ updateProject(p.id, "images", ImageRemoved(p.images, idx))
                \/ \E v \in UrlInputs : updateProject(p.id, "images", ImageUrlEdited(p.images, idx, v))
                \/ \E v \in AltInputs : updateProject(p.id, "images", ImageAltEdited(p.images, idx, v))

\* Date.now().toString() at a clock reading t.
TimeId(t) == ToString(t)

NewProject(t) ==
    Project(TimeId(t), "New Project", "print", "https://picsum.photos/800/800", << >>)

addProject ==
    /\ CanEdit
    /\ \E t \in {r \in ClockReadings : r >= now} :
          /\ now' = t
          /\ draftContent' = << [draft EXCEPT !.projects = << NewProject(t) >> \o draft.projects] >>
    /\ aliased' = aliased \ {"root", "projects"}
    /\ edits' = edits + 1
    /\ UNCHANGED << appVars, rteVars, detailVars, isOpen, reads, downloaded, alerts, declined >>

ProjectsWithout(ps, id) == SelectSeq(ps, LAMBDA p : p.id # id)

\* A trash button that deletes whatever confirm() answers.
deleteProjectUnconfirmed ==
    /\ CanEdit
    /\ \E i \in 1..Len(draft.projects), confirmed \in BOOLEAN :
          /\ draftContent' =
                << [draft EXCEPT !.projects = ProjectsWithout(draft.projects, draft.projects[i].id)] >>
          /\ aliased' = aliased \ {"root", "projects"}
          /\ declined' = IF confirmed THEN declined ELSE declined + 1
          /\ edits' = edits + 1
          /\ UNCHANGED << appVars, rteVars, detailVars, isOpen, reads, downloaded, alerts, now >>

\* The trash button of project row i; confirm() answers `confirmed`.
deleteProjectRow(i, confirmed) ==
    IF confirmed
    THEN SetDraft([draft EXCEPT !.projects = ProjectsWithout(draft.projects, draft.projects[i].id)],
                  {"root", "projects"})
    ELSE /\ declined' = declined + 1
         /\ edits' = edits + 1
         /\ UNCHANGED << appVars, rteVars, detailVars, isOpen, draftContent, aliased, reads,
                         downloaded, alerts, now >>

deleteProject ==
    /\ CanEdit
    /\ \E i \in 1..Len(draft.projects), confirmed \in BOOLEAN : deleteProjectRow(i, confirmed)

\* An exchange that writes the neighbour over the moved row only.
MovedProjectsOverwriting(ps, index, direction) ==
    LET targetIndex == IF direction = "up" THEN index - 1 ELSE index + 1
    IN [ps EXCEPT ![index + 1] = ps[targetIndex + 1]]

MovedProjects(ps, index, direction) ==
    IF (direction = "up" /\ index = 0) \/ (direction = "down" /\ index = Len(ps) - 1)
    THEN ps
    ELSE LET targetIndex == IF direction = "up" THEN index - 1 ELSE index + 1
         IN [ps EXCEPT ![index + 1] = ps[targetIndex + 1], ![targetIndex + 1] = ps[index + 1]]

\* A press on an arrow button of the project row at `index`. At either
\* boundary the button is disabled and the handler returns before
\* setDraftContent: the press changes nothing and is only counted.
moveProjectRow(index, direction) ==
    IF (direction = "up" /\ index = 0)
       \/ (direction = "down" /\ index = Len(draft.projects) - 1)
    THEN /\ edits' = edits + 1
         /\ UNCHANGED << appVars, rteVars, detailVars, isOpen, draftContent, aliased, reads,
                         downloaded, alerts, declined, now >>
    ELSE SetDraft([draft EXCEPT !.projects = MovedProjects(draft.projects, index, direction)],
                  {"root", "projects"})

moveProject ==
    /\ CanEdit
    /\ \E index \in 0..(Len(draft.projects) - 1), direction \in {"up", "down"} :
          moveProjectRow(index, direction)

UpdatedExhibitions(es, id, field, value) ==
    [i \in 1..Len(es) |-> IF es[i].id = id THEN [es[i] EXCEPT ![field] = value] ELSE es[i]]

updateExhibition(id, field, value) ==
    SetDraft([draft EXCEPT !.exhibitions = UpdatedExhibitions(draft.exhibitions, id, field, value)],
             {"root", "exhibitions", "items"})

EditExhibitionField ==
    /\ CanEdit
    /\ \E i \in 1..Len(draft.exhibitions) :
          \E v \in DateInputs : updateExhibition(draft.exhibitions[i].id, "date", v)

\* new Date().toISOString().split('T')[0] at a clock reading.
TodayIso(t) == "2026-01-01"

NewExhibition(t) == Exhibition(TimeId(t), "New Exhibition", TodayIso(t))

addExhibition ==
    /\ CanEdit
    /\ \E t \in {r \in ClockReadings : r >= now} :
          /\ now' = t
          /\ draftContent' = << [draft EXCEPT !.exhibitions = << NewExhibition(t) >> \o draft.exhibitions] >>
    /\ aliased' = aliased \ {"root", "exhibitions"}
    /\ edits' = edits + 1
    /\ UNCHANGED << appVars, rteVars, detailVars, isOpen, reads, downloaded, alerts, declined >>

ExhibitionsWithout(es, id) == SelectSeq(es, LAMBDA e : e.id # id)

deleteExhibition ==
    /\ CanEdit
    /\ \E i \in 1..Len(draft.exhibitions), confirmed \in BOOLEAN :
          IF confirmed
          THEN SetDraft([draft EXCEPT !.exhibitions = ExhibitionsWithout(draft.exhibitions, draft.exhibitions[i].id)],
                        {"root", "exhibitions"})
          ELSE /\ declined' = declined + 1
               /\ edits' = edits + 1
               /\ UNCHANGED << appVars, rteVars, detailVars, isOpen, draftContent, aliased, reads,
                               downloaded, alerts, now >>

\* The inputs of the settings tab: setDraftContent({...draftContent, field: value})
EditSettings ==
    /\ CanEdit
    /\ \E v \in EmailInputs : SetDraft([draft EXCEPT !.contactEmail = v], {"root"})

\* The tab buttons. Which tab is shown is not tracked; the projects and the
\* exhibitions tab map over draftContent.projects and .exhibitions, and
\* showing one of them over a draft without these throws in the render.
setActiveTab ==
    /\ EditorOpen
    /\ ~HasShape(draft)
    /\ appMounted' = FALSE
    /\ bodyOverflow' = ""
    /\ UNCHANGED << content, isAdmin, adminParam, rteVars, activeCategory, selectedProjectId,
                    isLoading, error, detailVars, adminVars >>

(***************************************************************************)
(* RichTextEditor: the editor of one project row, which stays mounted      *)
(* while the row's key (the project id) is in the draft.  Its parent       *)
(* answers onChange(v) by binding value to v and may bind value to another *)
(* description at any time (an import that holds the same project).        *)
(***************************************************************************)
Texts == {"", "a", "ab"}
Blocks == {"p", "h3", "h4"}
HtmlValues == {Html(t, b, bold) : t \in Texts, b \in Blocks, bold \in BOOLEAN}

\* innerHTML after the sync effect has run for value v.
SyncedHtml(html, v, internal) == IF ~internal /\ html # v THEN v ELSE html

\* isInternalUpdate.current = true; onChange(h); then the render: the effect
\* depends on [value] and runs only when value is a different string.
OnChangeFromEditor(h) ==
    /\ rteValue' = h
    /\ IF h # rteValue
       THEN /\ editorHtml' = SyncedHtml(h, h, TRUE)
            /\ isInternalUpdate' = FALSE
       ELSE /\ editorHtml' = h
            /\ isInternalUpdate' = TRUE
    /\ UNCHANGED << appVars, detailVars, adminVars >>

\* Typing: the browser has changed the surface before the input event.
handleInput ==
    /\ EditorOpen
    /\ \E t \in Texts \ {editorHtml.text} :
          OnChangeFromEditor([editorHtml EXCEPT !.text = t])

\* What document.execCommand leaves in the surface: formatBlock sets the
\* block, bold toggles on a selection, and a command that applies to
\* nothing (collapsed selection, same block) leaves it as it is.
ExecResults(html) ==
    {html, [html EXCEPT !.bold = ~html.bold]} \cup {[html EXCEPT !.block = b] : b \in Blocks}

\* A toolbar button.
exec ==
    /\ EditorOpen
    /\ \E h \in ExecResults(editorHtml) : OnChangeFromEditor(h)

\* The parent renders the row with another description; the effect runs.
ValueChangedOutside ==
    /\ EditorOpen
    /\ \E v \in HtmlValues \ {rteValue} :
          /\ rteValue' = v
          /\ editorHtml' = SyncedHtml(editorHtml, v, isInternalUpdate)
    /\ isInternalUpdate' = FALSE
    /\ UNCHANGED << appVars, detailVars, adminVars >>


(***************************************************************************)
(* Properties.                                                             *)
(***************************************************************************)
\* Reading a property that is absent yields undefined.
ReadProperty(v) == IF v = ABSENT THEN UNDEFINED ELSE v

\* What reading every property of a document yields: two documents are
\* deep-equal when these agree.
ReadDoc(doc) ==
    [doc EXCEPT
       !.logoUrl = ReadProperty(doc.logoUrl),
       !.projects = [i \in 1..Len(doc.projects) |->
                       [doc.projects[i] EXCEPT
                          !.images = [j \in 1..Len(doc.projects[i].images) |->
                                        [doc.projects[i].images[j] EXCEPT
                                           !.alt = ReadProperty(doc.projects[i].images[j].alt)]]]]]

DeepEqual(a, b) == ReadDoc(a) = ReadDoc(b)

\* C1: the published content changes only at the initial load and at an
\* explicit close of the open editor, where it becomes the whole draft; every
\* step that leaves the editor open leaves the published content as it is.
C1_PublishedOnlyAtLoadOrClose ==
    [][ /\ content' # content =>
             \/ isLoading /\ content = << >> /\ content' = << ContentJson >>
             \/ isOpen /\ ~isOpen' /\ content' = draftContent
        /\ (isOpen /\ isOpen') => content' = content ]_vars

\* C1 witness: the editor is open, edits were made and the draft differs
\* from the published content, which is still the loaded document.
C1_Witness ==
    /\ isOpen
    /\ edits = MaxEdits
    /\ draftContent # content
    /\ content = << ContentJson >>

\* C2: opening (closed -> open) sets the draft to a deep copy of the
\* published content that shares no object with it and leaves the content
\* as it is; closing (open -> closed, the editor staying mounted) makes the
\* published content the draft as it stands, edits included.
C2_OpenCopiesCloseCommits ==
    [][ /\ (~isOpen /\ isOpen') =>
             /\ DeepEqual(draftContent'[1], content[1])
             /\ aliased' = {}
             /\ content' = content
        /\ (isOpen /\ ~isOpen' /\ isAdmin') =>
             /\ content' = draftContent
             /\ draftContent' = draftContent ]_vars

\* C2 witness: two edits were made in the open editor and the close has
\* published them.
C2_Witness ==
    /\ isAdmin
    /\ ~isOpen
    /\ edits = 2
    /\ content = draftContent
    /\ content # << ContentJson >>
    /\ aliased = AllParts

\* C3: whenever a project detail is displayed the slide index lies in
\* 0..N-1, N the number of slides of the displayed project.
C3_SlideIndexInRange ==
    (content # << >> /\ HasSelectedProject) =>
        currentSlide \in 0..(Len(Slides(selectedProject)) - 1)

RECURSIVE TimesNext(_, _, _)
TimesNext(i, n, k) == IF k = 0 THEN i ELSE TimesNext(NextIndex(i, n), n, k - 1)
RECURSIVE TimesPrev(_, _, _)
TimesPrev(i, n, k) == IF k = 0 THEN i ELSE TimesPrev(PrevIndex(i, n), n, k - 1)

\* C4: for the N slides of the displayed project and every index i of
\* 0..N-1, next maps N-1 to 0 and i to i+1 otherwise, prev maps 0 to N-1 and
\* i to i-1 otherwise, N times next and N times prev return to i, and prev
\* undoes next; the slideshow buttons move the index accordingly.
C4_SlideCycle ==
    /\ [](DetailShown =>
            \A i \in 0..(NumSlides - 1) :
               /\ NextIndex(i, NumSlides) = (IF i = NumSlides - 1 THEN 0 ELSE i + 1)
               /\ PrevIndex(i, NumSlides) = (IF i = 0 THEN NumSlides - 1 ELSE i - 1)
               /\ TimesNext(i, NumSlides, NumSlides) = i
               /\ TimesPrev(i, NumSlides, NumSlides) = i
               /\ PrevIndex(NextIndex(i, NumSlides), NumSlides) = i)
    /\ [][nextSlide =>
            currentSlide' = (IF currentSlide = NumSlides - 1 THEN 0 ELSE currentSlide + 1)]_vars
    /\ [][prevSlide =>
            currentSlide' = (IF currentSlide = 0 THEN NumSlides - 1 ELSE currentSlide - 1)]_vars

\* C4 witness: a swipe to the next slide from the last of at least three
\* slides has wrapped to the first.
C4_Witness ==
    /\ DetailShown
    /\ NumSlides >= 3
    /\ gesture.phase = "ended"
    /\ gesture.navs = << "next" >>
    /\ gesture.from = NumSlides - 1
    /\ currentSlide = 0

\* The release displacement of the ended touch sequence is past the commit
\* threshold and more horizontal than vertical.
ReleasedAsSwipe ==
    /\ gesture.phase = "ended"
    /\ Abs(gesture.dx) > 40
    /\ Abs(gesture.dx) > Abs(gesture.dy)

SignCorrect == IF gesture.dx < 0 THEN << "next" >> ELSE << "prev" >>

\* C5 as claimed: every touch sequence released past the commit threshold,
\* more horizontally than vertically, triggers exactly one navigation, next
\* for leftward and prev for rightward motion.
C5_EverySwipeNavigates ==
    ReleasedAsSwipe => gesture.navs = SignCorrect

\* C5 as amended: the same for the touch sequences in which some touch move
\* was more horizontal than vertical and past the dead zone.
C5_SwipeModeNavigates ==
    (ReleasedAsSwipe /\ gesture.sawSwipe) => gesture.navs = SignCorrect

\* C5 witness: a leftward swipe has ended and called nextSlide once.
C5_Witness ==
    /\ ReleasedAsSwipe
    /\ gesture.sawSwipe
    /\ gesture.dx < 0
    /\ gesture.navs = << "next" >>

\* C6: a touch sequence released within the dead zone, or at least as
\* vertically as horizontally, triggers no navigation, and no touch handler
\* that triggers none changes the slide index.
C6_NoSwipeNoNavigation ==
    /\ []((gesture.phase = "ended"
            /\ (Abs(gesture.dx) <= 10 \/ Abs(gesture.dy) >= Abs(gesture.dx)))
          => gesture.navs = << >>)
    /\ [][(gesture' # gesture /\ gesture'.navs = << >>) => currentSlide' = currentSlide]_vars

\* C6 witness: swipe mode was entered by a move, the release is more
\* vertical than horizontal though past the commit threshold, and nothing
\* was triggered.
C6_Witness ==
    /\ gesture.phase = "ended"
    /\ gesture.sawSwipe
    /\ Abs(gesture.dx) > 40
    /\ Abs(gesture.dy) >= Abs(gesture.dx)
    /\ gesture.navs = << >>
    /\ currentSlide = gesture.from

\* The k-th smallest element of a set of indices.
KthOf(S, k) == CHOOSE i \in S : Cardinality({j \in S : j <= i}) = k

\* f is the subsequence of ps of the projects of category cat, in order.
IsCategorySubsequence(f, ps, cat) ==
    LET match == {i \in 1..Len(ps) : ps[i].category = cat}
    IN /\ Len(f) = Cardinality(match)
       /\ \A k \in 1..Len(f) : f[k] = ps[KthOf(match, k)]

\* C7: for every category other than "all", offered or active, the filtered
\* list is the subsequence of the published projects of that category in
\* published order; for "all" it is the published sequence itself.
C7_FilterIsCategorySubsequence ==
    content # << >> =>
        /\ FilterProjects(content, "all") = content[1].projects
        /\ \A cat \in ({categories[i] : i \in 1..Len(categories)} \cup {activeCategory}) \ {"all"} :
              IsCategorySubsequence(FilterProjects(content, cat), content[1].projects, cat)

\* C7 witness: after an editor commit a category is active whose projects
\* are some but not all of the published ones.
C7_Witness ==
    /\ Ready
    /\ content # << ContentJson >>
    /\ activeCategory # "all"
    /\ Len(filteredProjects) >= 1
    /\ Len(filteredProjects) < Len(content[1].projects)

\* The ids of a sequence of projects are pairwise distinct.
DistinctIds(ps) == \A i, j \in 1..Len(ps) : ps[i].id = ps[j].id => i = j

\* Where navigation from filtered position i lands among M projects.
Wrapped(i, direction, M) ==
    IF direction = "next" THEN (IF i = M - 1 THEN 0 ELSE i + 1)
    ELSE (IF i = 0 THEN M - 1 ELSE i - 1)

\* handleNavigate selects, by its id, the project at the wrapped position of
\* the filtered list, and changes nothing when the selection is not in it.
NavigatesById(direction) ==
    handleNavigate(direction) =>
        IF selectedProjectIndex = -1
        THEN UNCHANGED vars
        ELSE /\ selectedProjectId' =
                  filteredProjects[Wrapped(selectedProjectIndex, direction, Len(filteredProjects)) + 1].id
             /\ filteredProjects' = filteredProjects
             /\ Len(filteredProjects) = 1 => UNCHANGED vars

\* After handleNavigate the selected project is the one at the wrapped position.
NavigatesToPosition(direction) ==
    (handleNavigate(direction) /\ selectedProjectIndex # -1) =>
        selectedProjectIndex' = Wrapped(selectedProjectIndex, direction, Len(filteredProjects))

\* C8: project prev/next navigation selects the project at position
\* (i+1) mod M resp. (i-1) mod M of the filtered list, re-selects the same
\* project when M = 1, and is a no-op when the selection is not in the list.
C8_NavigationWraps ==
    [][ /\ NavigatesById("next") /\ NavigatesById("prev")
        /\ NavigatesToPosition("next") /\ NavigatesToPosition("prev") ]_vars

\* The part of C8 that holds of the code: the selection by id.
C8_NavigationSelectsWrappedId ==
    [][NavigatesById("next") /\ NavigatesById("prev")]_vars

\* C9: in modal mode of the header the selected id is that of a project of
\* the filtered list and the counter reads "k / M" with 1 <= k <= M.
C9_HeaderCounterInRange ==
    (Ready /\ isModalOpen) =>
        /\ HasSelectedProject
        /\ LET shown == HeaderCounter(selectedProjectIndex, Len(filteredProjects))
           IN /\ shown # << >>
              /\ shown[2] = Len(filteredProjects)
              /\ shown[1] \in 1..shown[2]

\* C10: page scrolling is locked exactly while the detail overlay is shown.
C10_ScrollLockedIffOverlay ==
    (bodyOverflow = "hidden") <=> (Ready /\ HasSelectedProject)

\* The step is the onload callback of a pending read of file f.
OnloadOf(f) == f \in reads /\ reads' = reads \ {f} /\ isAdmin'

\* C11: an import of a file that is not well-formed JSON (an empty file
\* included) leaves the draft and the published content as they were.
C11_FailedImportChangesNothing ==
    [][\A f \in reads :
          (OnloadOf(f) /\ ~JSONParses(f)) =>
              draftContent' = draftContent /\ content' = content]_vars

\* A failed import has been reported over an edited, still unpublished draft.
C11_Witness ==
    /\ EditorOpen
    /\ alerts > 0
    /\ reads = {}
    /\ ~DeepEqual(draft, content[1])

\* C12: every import of a file that does not parse as JSON (an empty file
\* included) raises the alert.
C12_FailedImportAlerts ==
    [][\A f \in reads :
          (OnloadOf(f) /\ ~JSONParses(f)) => alerts' = alerts + 1]_vars

\* C13: importing the document just exported, with the draft still the one
\* exported, yields a draft deep-equal to it; export writes the draft's
\* serialisation and changes neither the draft nor the published content.
C13_ExportImportRoundTrip ==
    [][ /\ \A f \in reads :
              (OnloadOf(f) /\ downloaded = << f >> /\ f = JSONStringify(draft)) =>
                  draftContent' # << >> /\ DeepEqual(draftContent'[1], draft)
        /\ downloaded' # downloaded =>
              /\ downloaded' = << JSONStringify(draft) >>
              /\ draftContent' = draftContent
              /\ content' = content ]_vars

\* The draft is the re-imported export of an edited draft: the image whose
\* url was edited has lost the undefined alt the edit gave it.
C13_Witness ==
    /\ EditorOpen
    /\ content = << ContentJson >>
    /\ reads = {}
    /\ downloaded = << JSONStringify(draft) >>
    /\ Len(draft.projects) = 2
    /\ draft.projects[1].images = << StrImage("u"), ObjImage("w", ABSENT) >>

\* C14: a failed startup fetch publishes an error, ends the loading state,
\* leaves the content empty and the admin surface disabled for the rest of
\* the page load; the content is first set only by a successful load, to
\* the parsed document.
C14_LoadFailureIsFinal ==
    /\ [](error # NULL => (content = << >> /\ ~isAdmin /\ ~isLoading))
    /\ [][ /\ error # NULL => error' = error
           /\ (content = << >> /\ content' # << >>) =>
                 (isLoading /\ content' = << ContentJson >> /\ error' = NULL) ]_vars

\* The fetch has failed on a page opened with the admin flag.
C14_Witness == error # NULL /\ adminParam /\ ~isLoading /\ content = << >>

\* C15: after a successful load the editing surface is available exactly
\* when the admin flag was present in the URL at load.
C15_AdminIffFlag == Ready => (isAdmin <=> adminParam)

\* C16: the ids of the draft's projects are pairwise distinct, and so are
\* those of its exhibitions, after any sequence of editor operations, two
\* adds at one clock reading included.
C16_IdsStayDistinct ==
    draftContent # << >> =>
        DistinctIds(draft.projects) /\ DistinctIds(draft.exhibitions)

\* Number of entries "all" in a category list.
TimesAll(cats) == Cardinality({i \in 1..Len(cats) : cats[i] = "all"})

NoProjectOfCategoryAll(c) ==
    c # << >> => \A i \in 1..Len(c[1].projects) : c[1].projects[i].category # "all"

\* C17: no project of the draft or of the published content has category
\* "all", and the category list holds "all" exactly once.
C17_AllIsNeverACategory ==
    /\ NoProjectOfCategoryAll(draftContent)
    /\ NoProjectOfCategoryAll(content)
    /\ content # << >> => TimesAll(categories) = 1

\* C18: a declined delete confirmation leaves the draft and the published
\* content unchanged and raises no error state.
C18_DeclinedDeleteChangesNothing ==
    [][declined' # declined =>
          /\ draftContent' = draftContent
          /\ content' = content
          /\ error' = error
          /\ alerts' = alerts
          /\ appMounted' = appMounted]_vars

\* A delete was declined on an edited draft, which still holds every row.
C18_Witness ==
    /\ EditorOpen
    /\ declined > 0
    /\ ~DeepEqual(draft, content[1])
    /\ Len(draft.projects) = Len(content[1].projects)
    /\ Len(draft.exhibitions) = Len(content[1].exhibitions)

\* o lists the entries of es, each once, newest first among the entries
\* with a date, entries of equal date in the order they have in es.
IsNewestFirstStable(o, es) ==
    /\ Len(o) = Len(es)
    /\ \E f \in [1..Len(es) -> 1..Len(es)] :
          /\ \A i, j \in 1..Len(es) : f[i] = f[j] => i = j
          /\ \A i \in 1..Len(es) : o[i] = es[f[i]]
          /\ \A i, j \in 1..Len(es) :
                (i < j /\ o[i].date = o[j].date) => f[i] < f[j]
    /\ \A i, j \in 1..Len(o) :
          (i < j /\ ValidDate(o[i].date) /\ ValidDate(o[j].date)) =>
              GetTime(o[i].date) >= GetTime(o[j].date)

\* C19: the displayed exhibition list is a permutation of the published
\* exhibitions ordered by date descending, equal dates in published order.
C19_ExhibitionsNewestFirst ==
    content # << >> =>
        \A o \in sortedExhibitions : IsNewestFirstStable(o, content[1].exhibitions)

\* C20: after every change of the bound value the surface shows the value:
\* an external change is written to the surface, and a change made by the
\* editor's own edit leaves the surface, which already shows it, alone.
C20_SurfaceFollowsValue ==
    [][rteValue' # rteValue => editorHtml' = rteValue']_vars

\* ps without its entry at position i.
RemovedAt(ps, i) == [j \in 1..(Len(ps) - 1) |-> IF j < i THEN ps[j] ELSE ps[j + 1]]

\* C21: a confirmed delete on project row i removes from the draft the
\* project of that row and nothing else; the other projects keep their
\* order, exhibitions and settings stay, and nothing is published by it.
C21_DeleteRemovesExactlyOne ==
    [][EditorOpen =>
          \A i \in 1..Len(draft.projects) :
              deleteProjectRow(i, TRUE) =>
                  /\ draftContent' = << [draft EXCEPT !.projects = RemovedAt(draft.projects, i)] >>
                  /\ content' = content]_vars

Occurrences(ps, p) == Cardinality({i \in 1..Len(ps) : ps[i] = p})

IsPermutation(qs, ps) ==
    /\ Len(qs) = Len(ps)
    /\ \A i \in 1..Len(ps) : Occurrences(qs, ps[i]) = Occurrences(ps, ps[i])

\* C22: an arrow button of the project row at `index` exchanges that project
\* with its neighbour in the direction pressed and changes nothing else;
\* "up" on the first row and "down" on the last leave the draft as it is;
\* the project sequence after the step is a permutation of the one before.
C22_MoveSwapsAdjacent ==
    [][EditorOpen =>
          \A index \in 0..(Len(draft.projects) - 1), direction \in {"up", "down"} :
              moveProjectRow(index, direction) =>
                  LET ps == draft.projects
                      qs == draftContent'[1].projects
                      targetIndex == IF direction = "up" THEN index - 1 ELSE index + 1
                  IN /\ draftContent' = << [draft EXCEPT !.projects = qs] >>
                     /\ content' = content
                     /\ IsPermutation(qs, ps)
                     /\ IF targetIndex < 0 \/ targetIndex > Len(ps) - 1
                        THEN qs = ps
                        ELSE /\ qs[index + 1] = ps[targetIndex + 1]
                             /\ qs[targetIndex + 1] = ps[index + 1]
                             /\ \A j \in 1..Len(ps) :
                                   (j # index + 1 /\ j # targetIndex + 1) => qs[j] = ps[j]]_vars

\* The open draft holds the published projects in another order.
C22_Witness ==
    /\ EditorOpen
    /\ Len(draft.projects) >= 3
    /\ draft.projects # content[1].projects
    /\ IsPermutation(draft.projects, content[1].projects)

\* C23: a field input of project row i replaces that field of that
\* project in the draft and nothing else: the other fields of the project,
\* the other projects and their order, the exhibitions and the settings
\* stay, and the published content is not written; likewise for a field
\* input of exhibition row i.
C23_UpdateReplacesOneField ==
    [][EditorOpen =>
          /\ \A i \in 1..Len(draft.projects) :
                /\ \A v \in TitleInputs :
                      updateProject(draft.projects[i].id, "title", v) =>
                          /\ draftContent' = << [draft EXCEPT !.projects[i].title = v] >>
                          /\ content' = content
                /\ \A v \in CategoryInputs :
                      updateProject(draft.projects[i].id, "category", v) =>
                          /\ draftContent' = << [draft EXCEPT !.projects[i].category = v] >>
                          /\ content' = content
          /\ \A i \in 1..Len(draft.exhibitions) :
                \A v \in DateInputs :
                    updateExhibition(draft.exhibitions[i].id, "date", v) =>
                        /\ draftContent' = << [draft EXCEPT !.exhibitions[i].date = v] >>
                        /\ content' = content]_vars

\* Position of the first project of category cat in ps.
FirstOfCategory(ps, cat) ==
    CHOOSE i \in 1..Len(ps) :
        /\ ps[i].category = cat
        /\ \A j \in 1..(i - 1) : ps[j].category # cat

\* C24: the category list is "all" followed by the categories of the
\* published projects, each once, in the order of their first project;
\* it is the same whatever filter is active.
C24_CategoriesAreAllThenDistinct ==
    IF content = << >>
    THEN categories = << "all" >>
    ELSE LET ps == content[1].projects
             offered == SubSeq(categories, 2, Len(categories))
         IN /\ categories[1] = "all"
            /\ \A i \in 1..Len(ps) :
                  Cardinality({k \in 1..Len(offered) : offered[k] = ps[i].category}) = 1
            /\ \A k \in 1..Len(offered) : \E i \in 1..Len(ps) : ps[i].category = offered[k]
            /\ \A k, l \in 1..Len(offered) :
                  k < l => FirstOfCategory(ps, offered[k]) < FirstOfCategory(ps, offered[l])

\* A filter other than "all" is active over projects of two categories,
\* one of them held by more than one project.
C24_Witness ==
    /\ content # << >>
    /\ activeCategory # "all"
    /\ Len(categories) = 3
    /\ Len(content[1].projects) > 2
    /\ Len(filteredProjects) < Len(content[1].projects)

\* C25: a file read that completes while the editor is closed leaves the
\* published content and the closed state as they are; an open that finds
\* such a result in the draft replaces it by a copy of the published
\* content; and the published content, once loaded, changes only in the
\* step that closes the open editor.
C25_LateImportIsDiscarded ==
    [][ /\ \A f \in reads :
              (OnloadOf(f) /\ ~isOpen) => (content' = content /\ ~isOpen')
        /\ (~isOpen /\ isOpen' /\ ~DeepEqual(draftContent[1], content[1])) =>
              /\ DeepEqual(draftContent'[1], content[1])
              /\ content' = content
        /\ (content # << >> /\ content' # content) =>
              (isOpen /\ ~isOpen' /\ content' = draftContent) ]_vars

\* The editor is closed, no read is pending, and the draft holds an
\* imported document that is not the published content.
C25_Witness ==
    /\ isAdmin
    /\ ~isOpen
    /\ reads = {}
    /\ content # << >>
    /\ draftContent # content
    /\ ~DeepEqual(draft, content[1])

\* C26: the draft and the published content always hold a projects and an
\* exhibitions sequence, after an import of well-formed JSON as well.
C26_ImportKeepsShape ==
    /\ draftContent # << >> => HasShape(draft)
    /\ content # << >> => HasShape(content[1])

\* C27: the active category is "all" or the category of at least one
\* published project.
C27_ActiveCategoryIsOffered ==
    content # << >> =>
        \/ activeCategory = "all"
        \/ \E i \in 1..Len(content[1].projects) : content[1].projects[i].category = activeCategory

\* C28: whenever the displayed project changes, by a grid tile or by
\* prev/next project navigation, the detail overlay shows the newly
\* displayed project is rendered at slide index 0.
C28_NewProjectStartsAtFirstSlide ==
    [][(selectedProjectId' # selectedProjectId /\ selectedProjectId' # NULL) =>
          currentSlide' = 0]_vars

(***************************************************************************)
(* Specifications.                                                         *)
(***************************************************************************)
\* The presentation shell and the slideshow buttons.
ShellNext ==
    \/ LoadContentOk
    \/ LoadContentFail
    \/ SetActiveCategory
    \/ SelectProject
    \/ handleNavigate("next")
    \/ handleNavigate("prev")
    \/ handleCloseModal
    \/ nextSlide
    \/ prevSlide

\* The editor's life cycle and its operations on projects, which the shell shows.
ProjectEditNext ==
    \/ ToggleAdmin
    \/ handleOpen
    \/ handleClose
    \/ handleImport
    \/ fileReaderOnload
    \/ EditProjectField
    \/ EditGallery
    \/ addProject
    \/ deleteProject
    \/ moveProject

\* The editor's operations on what the shell's selection does not depend on.
OtherEditNext ==
    \/ handleExport
    \/ EditExhibitionField
    \/ addExhibition
    \/ deleteExhibition
    \/ EditSettings

\* The page opened with the admin flag: shell, slideshow buttons and the
\* project side of the editor.
Next == ShellNext \/ ProjectEditNext

InitAdminPage == Init /\ adminParam = TRUE

Spec == InitAdminPage /\ [][Next]_vars

\* The editor with all its operations, under a shell in which no project is
\* selected and no filter is chosen.
EditorNext ==
    \/ LoadContentOk
    \/ LoadContentFail
    \/ ProjectEditNext
    \/ OtherEditNext

SpecEditor == Init /\ [][EditorNext]_vars

\* One displayed project with 0..MaxSlides gallery items, its slideshow
\* buttons and touch handlers.
MaxSlides == 3

GalleryOf(n) == [i \in 1..n |-> StrImage("u")]

InitDetail ==
    /\ \E n \in 0..MaxSlides :
          content = << SiteContent(ABSENT, << Project("p1", "One", "print", "thumb1", GalleryOf(n)) >>,
                                   << >>, "a@x") >>
    /\ isAdmin = FALSE
    /\ adminParam = FALSE
    /\ activeCategory = "all"
    /\ selectedProjectId = "p1"
    /\ isLoading = FALSE
    /\ error = NULL
    /\ bodyOverflow = "hidden"
    /\ appMounted = TRUE
    /\ currentSlide = 0
    /\ touchStartX = << >>
    /\ touchStartY = << >>
    /\ isSwiping = FALSE
    /\ gesture = NoGesture
    /\ isOpen = FALSE
    /\ draftContent = << >>
    /\ aliased = {}
    /\ reads = {}
    /\ downloaded = << >>
    /\ alerts = 0
    /\ declined = 0
    /\ rteValue = NoHtml
    /\ editorHtml = NoHtml
    /\ isInternalUpdate = FALSE
    /\ now = 1
    /\ edits = 0

DetailNext ==
    \/ nextSlide
    \/ prevSlide
    \/ handleTouchStart
    \/ handleTouchMove
    \/ handleTouchEnd

SpecDetail == InitDetail /\ [][DetailNext]_vars

\* The exhibition list: content.json holds up to MaxExhibitions exhibitions
\* with dates in ISO format; the page is opened with the admin flag and the
\* editor changes the exhibitions.
MaxExhibitions == 3

FileDates == {"2023-03-01", "2024-01-01", "2025-06-01"}

ExhibitionsOf(dates) ==
    [i \in 1..Len(dates) |-> Exhibition("e" \o ToString(i), "Ex", dates[i])]

InitExhibitions ==
    /\ \E n \in 0..MaxExhibitions : \E dates \in [1..n -> FileDates] :
          /\ content = << SiteContent(ABSENT, << >>, ExhibitionsOf(dates), "a@x") >>
          /\ draftContent = content
    /\ isAdmin = TRUE
    /\ adminParam = TRUE
    /\ activeCategory = "all"
    /\ selectedProjectId = NULL
    /\ isLoading = FALSE
    /\ error = NULL
    /\ bodyOverflow = ""
    /\ appMounted = TRUE
    /\ currentSlide = 0
    /\ touchStartX = << >>
    /\ touchStartY = << >>
    /\ isSwiping = FALSE
    /\ gesture = NoGesture
    /\ isOpen = FALSE
    /\ aliased = AllParts
    /\ reads = {}
    /\ downloaded = << >>
    /\ alerts = 0
    /\ declined = 0
    /\ rteValue = NoHtml
    /\ editorHtml = NoHtml
    /\ isInternalUpdate = FALSE
    /\ now = 1
    /\ edits = 0

ExhibitionsNext ==
    \/ handleOpen
    \/ handleClose
    \/ EditExhibitionField
    \/ addExhibition
    \/ deleteExhibition

SpecExhibitions == InitExhibitions /\ [][ExhibitionsNext]_vars

\* The open editor on the loaded content, with or without a project added
\* at the first clock reading, and the operations of the project rows.
InitProjects ==
    /\ content = << ContentJson >>
    /\ \E added \in {<< >>, << NewProject(1) >>} :
          draftContent = << [JSONParse(JSONStringify(ContentJson)) EXCEPT !.projects = added \o @] >>
    /\ isAdmin = TRUE
    /\ adminParam = TRUE
    /\ activeCategory = "all"
    /\ selectedProjectId = NULL
    /\ isLoading = FALSE
    /\ error = NULL
    /\ bodyOverflow = ""
    /\ appMounted = TRUE
    /\ currentSlide = 0
    /\ touchStartX = << >>
    /\ touchStartY = << >>
    /\ isSwiping = FALSE
    /\ gesture = NoGesture
    /\ isOpen = TRUE
    /\ aliased = {}
    /\ reads = {}
    /\ downloaded = << >>
    /\ alerts = 0
    /\ declined = 0
    /\ rteValue = NoHtml
    /\ editorHtml = NoHtml
    /\ isInternalUpdate = FALSE
    /\ now = 1
    /\ edits = 0

ProjectsNext ==
    \/ handleOpen
    \/ handleClose
    \/ EditProjectField
    \/ addProject
    \/ deleteProject
    \/ moveProject

SpecProjects == InitProjects /\ [][ProjectsNext]_vars

\* The page opened with the admin flag while the operator's download folder
\* holds a content.json with the text "{}"; the editor's import, export,
\* settings and tabs.
InitImport ==
    /\ content = << >>
    /\ isAdmin = FALSE
    /\ adminParam = TRUE
    /\ activeCategory = "all"
    /\ selectedProjectId = NULL
    /\ isLoading = TRUE
    /\ error = NULL
    /\ bodyOverflow = ""
    /\ appMounted = TRUE
    /\ currentSlide = 0
    /\ touchStartX = << >>
    /\ touchStartY = << >>
    /\ isSwiping = FALSE
    /\ gesture = NoGesture
    /\ isOpen = FALSE
    /\ draftContent = << >>
    /\ aliased = {}
    /\ reads = {}
    /\ downloaded = << JsonText(ShapelessDoc) >>
    /\ alerts = 0
    /\ declined = 0
    /\ rteValue = NoHtml
    /\ editorHtml = NoHtml
    /\ isInternalUpdate = FALSE
    /\ now = 1
    /\ edits = 0

ImportNext ==
    \/ LoadContentOk
    \/ ToggleAdmin
    \/ handleOpen
    \/ handleClose
    \/ handleExport
    \/ handleImport
    \/ fileReaderOnload
    \/ EditSettings
    \/ setActiveTab

SpecImport == InitImport /\ [][ImportNext]_vars

\* The rich text editor of a project row of the open editor, just mounted
\* on some description.
InitRichText ==
    /\ content = << ContentJson >>
    /\ draftContent = << JSONParse(JSONStringify(ContentJson)) >>
    /\ isAdmin = TRUE
    /\ adminParam = TRUE
    /\ activeCategory = "all"
    /\ selectedProjectId = NULL
    /\ isLoading = FALSE
    /\ error = NULL
    /\ bodyOverflow = ""
    /\ appMounted = TRUE
    /\ currentSlide = 0
    /\ touchStartX = << >>
    /\ touchStartY = << >>
    /\ isSwiping = FALSE
    /\ gesture = NoGesture
    /\ isOpen = TRUE
    /\ aliased = {}
    /\ reads = {}
    /\ downloaded = << >>
    /\ alerts = 0
    /\ declined = 0
    /\ now = 1
    /\ edits = 0
    /\ rteValue \in HtmlValues
    /\ editorHtml = rteValue
    /\ isInternalUpdate = FALSE

RichTextNext ==
    \/ handleInput
    \/ exec
    \/ ValueChangedOutside

SpecRichText == InitRichText /\ [][RichTextNext]_vars
====
